---- MODULE Spec2Model ----
(***************************************************************************)
(* Model of scripts/scrape_heroes.py: a linear pipeline that loads an HTML *)
(* page, locates one table by its THEAD, parses header keys and body rows, *)
(* projects every row into a hero record, sorts the records by name and    *)
(* writes the envelope as JSON.                                            *)
(*                                                                         *)
(* A Python string is a sequence of one-character strings; the characters  *)
(* outside printable ASCII that the code treats specially are named        *)
(* ("nbsp", "E-acute", "e-acute").  A coerced value is a tagged record.    *)
(***************************************************************************)
EXTENDS Integers, Sequences, FiniteSets, TLC

VARIABLES
    pc,           \* position of main(): the next statement to run
    cfg,          \* argparse result: source, thead_xpath (as its matches), out
    world,        \* what the source resolves to: HTTP status / file existence, page
    fs,           \* file system under the working directory: dirs, output file
    doc,          \* parsed document returned by load_document
    resolved_source,
    thead,        \* first node matched by cfg.thead_xpath
    header_keys,  \* result of parse_header_keys
    idx,          \* number of body rows the for loop has consumed
    cells,        \* result of the last parse_row_cells call
    heroes,       \* the list built by the loop, then sorted in place
    data,         \* the envelope returned by scrape_heroes
    stdout,       \* lines printed by main
    err,          \* the exception that ended the run, or None
    hist          \* statements executed so far, in order

vars == <<pc, cfg, world, fs, doc, resolved_source, thead, header_keys, idx,
          cells, heroes, data, stdout, err, hist>>

\* Optional[T]: None is the empty tuple, a present value x is <<x>>.
None == <<>>

Some(x) == <<x>>

Get(o) == o[1]

-----------------------------------------------------------------------------
(* Characters                                                              *)

Ascii ==
    <<" ", "!", "dquote", "#", "$", "%", "&", "'", "(", ")", "*", "+", ",", "-", ".", "/", "0", "1", "2", "3", "4", "5", "6", "7", "8", "9", ":", ";", "<", "=", ">", "?",
    "@", "A", "B", "C", "D", "E", "F", "G", "H", "I", "J", "K", "L", "M", "N", "O", "P", "Q", "R", "S", "T", "U", "V", "W", "X", "Y", "Z", "[", "backslash", "]", "^", "_",
    "backtick", "a", "b", "c", "d", "e", "f", "g", "h", "i", "j", "k", "l", "m", "n", "o", "p", "q", "r", "s", "t", "u", "v", "w", "x", "y", "z", "{", "|", "}", "~">>

NBSP == "nbsp"

UpperNonAscii == "E-acute"

LowerNonAscii == "e-acute"

Chars == {Ascii[i] : i \in DOMAIN Ascii} \cup {"\t", "\n", NBSP, UpperNonAscii, LowerNonAscii}

\* Unicode code point of a character (ord).
CodePoint ==
    [c \in Chars |->
        CASE c = "\t" -> 9
          [] c = "\n" -> 10
          [] c = NBSP -> 160
          [] c = UpperNonAscii -> 201
          [] c = LowerNonAscii -> 233
          [] OTHER -> 31 + (CHOOSE i \in DOMAIN Ascii : Ascii[i] = c)]

\* Regex class \s on str patterns, and the characters str.strip() removes.
SpaceChars == {" ", "\t", "\n", NBSP}

\* XPath normalize-space() whitespace: space, tab, CR, LF only.
XmlSpaceChars == {" ", "\t", "\n"}

\* Regex class \d.
DigitChars == {c \in Chars : CodePoint[c] >= 48 /\ CodePoint[c] <= 57}

\* Regex class [a-z0-9].
SlugChars ==
    {c \in Chars : \/ (CodePoint[c] >= 97 /\ CodePoint[c] <= 122)
                   \/ (CodePoint[c] >= 48 /\ CodePoint[c] <= 57)}

\* str.lower() on one character.
LowerChar(c) ==
    IF CodePoint[c] >= 65 /\ CodePoint[c] <= 90
    THEN Ascii[CodePoint[c] + 32 - 31]
    ELSE IF c = UpperNonAscii THEN LowerNonAscii ELSE c

-----------------------------------------------------------------------------
(* String helpers                                                          *)

RECURSIVE Concat(_)
\* "".join(list of strings)
Concat(ss) == IF ss = <<>> THEN <<>> ELSE Head(ss) \o Concat(Tail(ss))

RECURSIVE LStrip(_, _)
\* s.lstrip(): drop the leading characters that are in the set
LStrip(s, drop) ==
    IF s # <<>> /\ Head(s) \in drop THEN LStrip(Tail(s), drop) ELSE s

RECURSIVE RStrip(_, _)
RStrip(s, drop) ==
    IF s # <<>> /\ s[Len(s)] \in drop THEN RStrip(SubSeq(s, 1, Len(s) - 1), drop) ELSE s

\* s.strip(): both ends.
Strip(s, drop) == RStrip(LStrip(s, drop), drop)

RECURSIVE SubRuns(_, _, _)
\* re.sub(r"[class]+", rep, s): every maximal run of characters of the class
\* is replaced by rep.
SubRuns(s, class, rep) ==
    IF s = <<>> THEN <<>>
    ELSE IF Head(s) \in class
         THEN rep \o SubRuns(LStrip(Tail(s), class), class, rep)
         ELSE <<Head(s)>> \o SubRuns(Tail(s), class, rep)

\* sub in s (substring test)
Contains(s, sub) ==
    \E i \in 1..(Len(s) - Len(sub) + 1) : SubSeq(s, i, i + Len(sub) - 1) = sub

\* s < t under Python's str ordering (lexicographic by code point).
StrLess(s, t) ==
    \E k \in 1..Len(t) :
        /\ \A j \in 1..(k - 1) : j <= Len(s) /\ s[j] = t[j]
        /\ \/ Len(s) = k - 1
           \/ (Len(s) >= k /\ CodePoint[s[k]] < CodePoint[t[k]])

StrLeq(s, t) == s = t \/ StrLess(s, t)

-----------------------------------------------------------------------------
(* Text + parsing helpers                                                  *)

\* s.replace("\xa0", " ")
ReplaceNbsp(s) == [i \in DOMAIN s |-> IF s[i] = NBSP THEN " " ELSE s[i]]

_clean(s) ==
    IF s = <<>> THEN <<>>
    ELSE Strip(SubRuns(ReplaceNbsp(s), SpaceChars, <<" ">>), SpaceChars)

\* Typed values of the output: None, int, float, str.
NullVal == [t |-> "null", n |-> 0, d |-> 1, s |-> <<>>]

IntVal(n) == [t |-> "int", n |-> n, d |-> 1, s |-> <<>>]

StrVal(s) == [t |-> "str", n |-> 0, d |-> 1, s |-> s]

RECURSIVE Gcd(_, _)
Gcd(a, b) == IF b = 0 THEN a ELSE Gcd(b, a % b)

Abs(n) == IF n < 0 THEN -n ELSE n

\* A float is kept as the reduced fraction n/d it denotes.
FloatVal(n, d) ==
    LET g == Gcd(Abs(n), d) IN [t |-> "float", n |-> n \div g, d |-> d \div g, s |-> <<>>]

RECURSIVE DigitsValue(_)
\* value of a string of decimal digits
DigitsValue(s) ==
    IF s = <<>> THEN 0
    ELSE 10 * DigitsValue(SubSeq(s, 1, Len(s) - 1)) + (CodePoint[s[Len(s)]] - 48)

RECURSIVE Pow10(_)
Pow10(k) == IF k = 0 THEN 1 ELSE 10 * Pow10(k - 1)

\* re.fullmatch(r"-?\d+(\.\d+)?", s)
FullMatchNumber(s) ==
    LET a  == IF s # <<>> /\ Head(s) = "-" THEN Tail(s) ELSE s
        r  == LStrip(a, DigitChars)
        f  == IF r = <<>> THEN <<>> ELSE Tail(r)
    IN  /\ Len(r) < Len(a)
        /\ \/ r = <<>>
           \/ (Head(r) = "." /\ f # <<>> /\ LStrip(f, DigitChars) = <<>>)

\* int(s) for a string matching -?\d+
ParseInt(s) ==
    IF Head(s) = "-" THEN IntVal(-DigitsValue(Tail(s))) ELSE IntVal(DigitsValue(s))

\* float(s) for a string matching -?\d+\.\d+
ParseFloat(s) ==
    LET neg  == Head(s) = "-"
        a    == IF neg THEN Tail(s) ELSE s
        dot  == CHOOSE i \in 1..Len(a) : a[i] = "."
        ip   == SubSeq(a, 1, dot - 1)
        fp   == SubSeq(a, dot + 1, Len(a))
        m    == DigitsValue(ip \o fp)
    IN  FloatVal(IF neg THEN -m ELSE m, Pow10(Len(fp)))

_to_number_or_string(s0) ==
    LET s == _clean(s0) IN
    IF s = <<>> THEN NullVal
    ELSE IF FullMatchNumber(s)
         THEN IF Contains(s, <<".">>) THEN ParseFloat(s) ELSE ParseInt(s)
         ELSE StrVal(s)

_first(xs) == IF xs # <<>> THEN Some(xs[1]) ELSE None

\* _slugify without the final strip("-")
_slugify_NoStrip(name) ==
    LET s == [i \in DOMAIN name |-> LowerChar(name[i])]
    IN  SubRuns(s, Chars \ SlugChars, <<"-">>)

_slugify(name) ==
    LET s == [i \in DOMAIN name |-> LowerChar(name[i])]
    IN  Strip(SubRuns(s, Chars \ SlugChars, <<"-">>), {"-"})


-----------------------------------------------------------------------------
(* Document model                                                          *)
(*   th   : sequence of segments [kind : "text" | "abbr", s : string]      *)
(*   td   : [sort_value : None | string,                                   *)
(*           segs : sequence of [kind : "text" | "a", s : string]]         *)
(*   tr   : sequence of td (its td children, in document order)            *)
(*   node : [parent : None | [tag : string, rows : sequence of tr],        *)
(*           ths : sequence of th]                                         *)
(*   doc  : [matches : sequence of node], the result of cfg.thead_xpath    *)

\* "".join(el.itertext())
IterText(segs) == Concat([i \in DOMAIN segs |-> segs[i].s])

\* the subsequence of xs whose elements satisfy the test, in order
RECURSIVE SelectKind(_, _)
SelectKind(segs, kind) ==
    IF segs = <<>> THEN <<>>
    ELSE IF Head(segs).kind = kind
         THEN <<Head(segs)>> \o SelectKind(Tail(segs), kind)
         ELSE SelectKind(Tail(segs), kind)

RECURSIVE SelectNonBlank(_)
\* XPath predicate [normalize-space(string(.))!='']
SelectNonBlank(segs) ==
    IF segs = <<>> THEN <<>>
    ELSE IF Strip(Head(segs).s, XmlSpaceChars) # <<>>
         THEN <<Head(segs)>> \o SelectNonBlank(Tail(segs))
         ELSE SelectNonBlank(Tail(segs))

DMG == <<"D", "M", "G">>

MIN_MARK == <<"(", "M", "I", "N", ")">>

MAX_MARK == <<"(", "M", "A", "X", ")">>

DMG_MIN == <<"D", "M", "G", " ", "(", "M", "I", "N", ")">>

DMG_MAX == <<"D", "M", "G", " ", "(", "M", "A", "X", ")">>

\* HeaderKey looking for the markers in the key instead of the TH text
HeaderKey_MarkInKey(th) ==
    LET abbr    == _first(SelectKind(th, "abbr"))
        key0    == IF abbr # None THEN _clean(Get(abbr).s) ELSE _clean(IterText(th))
        key1    == SubRuns(key0, SpaceChars, <<" ">>)
        key2    == IF key1 = DMG /\ Contains(key1, MIN_MARK) THEN DMG_MIN ELSE key1
        key3    == IF key2 = DMG /\ Contains(key1, MAX_MARK) THEN DMG_MAX ELSE key2
    IN  key3

\* The body of the for loop of parse_header_keys: the key of one TH.
HeaderKey(th) ==
    LET abbr    == _first(SelectKind(th, "abbr"))
        key0    == IF abbr # None THEN _clean(Get(abbr).s) ELSE _clean(IterText(th))
        key1    == SubRuns(key0, SpaceChars, <<" ">>)
        th_text == _clean(IterText(th))
        key2    == IF key1 = DMG /\ Contains(th_text, MIN_MARK) THEN DMG_MIN ELSE key1
        key3    == IF key2 = DMG /\ Contains(th_text, MAX_MARK) THEN DMG_MAX ELSE key2
    IN  key3

parse_header_keys(node) == [i \in DOMAIN node.ths |-> HeaderKey(node.ths[i])]

\* CellRecord with "sort_value or text" as the value source
CellRecord_SortOrText(td) ==
    LET sort_value   == td.sort_value
        text         == _clean(IterText(td.segs))
        a            == _first(SelectNonBlank(SelectKind(td.segs, "a")))
        link_text    == IF a # None THEN Some(_clean(Get(a).s)) ELSE None
        value_source == IF sort_value # None /\ Get(sort_value) # <<>> THEN Get(sort_value) ELSE text
    IN  [text       |-> text,
         value      |-> _to_number_or_string(value_source),
         sort_value |-> sort_value,
         link_text  |-> link_text]

\* The body of the for loop of parse_row_cells: the record of one TD.
CellRecord(td) ==
    LET sort_value   == td.sort_value
        text         == _clean(IterText(td.segs))
        a            == _first(SelectNonBlank(SelectKind(td.segs, "a")))
        link_text    == IF a # None THEN Some(_clean(Get(a).s)) ELSE None
        value_source == IF sort_value # None THEN Get(sort_value) ELSE text
    IN  [text       |-> text,
         value      |-> _to_number_or_string(value_source),
         sort_value |-> sort_value,
         link_text  |-> link_text]

parse_row_cells(tr) == [i \in DOMAIN tr |-> CellRecord(tr[i])]

UNKNOWN == <<"U", "n", "k", "n", "o", "w", "n">>

KEY_A == <<"A">>

\* (field of hero["base"], header key looked up in flat)
BaseFields ==
    << <<"str", <<"S", "T", "R">> >>,
       <<"strGain", <<"S", "T", "R", "+">> >>,
       <<"str30", <<"S", "T", "R", " ", "3", "0">> >>,
       <<"agi", <<"A", "G", "I">> >>,
       <<"agiGain", <<"A", "G", "I", "+">> >>,
       <<"agi30", <<"A", "G", "I", " ", "3", "0">> >>,
       <<"int", <<"I", "N", "T">> >>,
       <<"intGain", <<"I", "N", "T", "+">> >>,
       <<"int30", <<"I", "N", "T", " ", "3", "0">> >>,
       <<"total", <<"T">> >>,
       <<"totalGain", <<"T", "+">> >>,
       <<"total30", <<"T", "3", "0">> >>,
       <<"ms", <<"M", "S">> >>,
       <<"armor", <<"A", "R">> >>,
       <<"dmgMin", <<"D", "M", "G", " ", "(", "M", "I", "N", ")">> >>,
       <<"dmgMax", <<"D", "M", "G", " ", "(", "M", "A", "X", ")">> >>,
       <<"range", <<"R", "G">> >>,
       <<"attackSpeed", <<"A", "S">> >>,
       <<"bat", <<"B", "A", "T">> >>,
       <<"attackPoint", <<"A", "T", "K", " ", "P", "T">> >>,
       <<"backswing", <<"A", "T", "K", " ", "B", "S">> >>,
       <<"visionDay", <<"V", "S", "-", "D">> >>,
       <<"visionNight", <<"V", "S", "-", "N">> >>,
       <<"turnRate", <<"T", "R">> >>,
       <<"collision", <<"C", "O", "L">> >>,
       <<"hp", <<"H", "P">> >>,
       <<"hpRegen", <<"H", "P", "/", "S">> >>,
       <<"mp", <<"M", "P">> >>,
       <<"mpRegen", <<"M", "P", "/", "S">> >> >>

\* {k: c["value"] for k, c in zip(header_keys, cells)}: a later pair with the
\* same key overwrites an earlier one.
FlatOf(keys, cs) ==
    [k \in {keys[i] : i \in DOMAIN keys} |->
        LET last == CHOOSE i \in DOMAIN keys :
                        keys[i] = k /\ \A j \in DOMAIN keys : keys[j] = k => j <= i
        IN  cs[last].value]

\* flat.get(k)
FlatGet(flat, k) == IF k \in DOMAIN flat THEN flat[k] ELSE NullVal

\* x or y or ...: Python truthiness of an optional string
Truthy(o) == o # None /\ Get(o) # <<>>

\* cells[0]["link_text"] or cells[0]["text"] or "Unknown"
HeroName(cs) ==
    IF Truthy(cs[1].link_text) THEN Get(cs[1].link_text)
    ELSE IF Truthy(Some(cs[1].text)) THEN cs[1].text
    ELSE UNKNOWN

\* HeroBase with dmgMax read from the key of dmgMin
HeroBase_DmgMaxFromMin(flat) ==
    [f \in {BaseFields[i][1] : i \in DOMAIN BaseFields} |->
        LET i == CHOOSE j \in DOMAIN BaseFields : BaseFields[j][1] = f
        IN  FlatGet(flat, IF f = "dmgMax" THEN DMG_MIN ELSE BaseFields[i][2])]

\* the header key each field of base is read from
BaseKey ==
    [f \in {BaseFields[i][1] : i \in DOMAIN BaseFields} |->
        BaseFields[CHOOSE j \in DOMAIN BaseFields : BaseFields[j][1] = f][2]]

HeroBase(flat) == [f \in DOMAIN BaseKey |-> FlatGet(flat, BaseKey[f])]

\* The guard of to_semantic_hero: it raises ValueError on a length mismatch.
HeaderCellMismatch(keys, cs) == Len(keys) # Len(cs)

\* The hero to_semantic_hero returns when it does not raise.
to_semantic_hero(keys, cs) ==
    LET flat      == FlatOf(keys, cs)
        hero_name == HeroName(cs)
    IN  [id               |-> _slugify(hero_name),
         name             |-> hero_name,
         primaryAttribute |-> FlatGet(flat, KEY_A),
         base             |-> HeroBase(flat),
         raw              |-> flat]

\* an insertion that puts an element before the elements with an equal key
InsertBeforeEqual(sorted, h) ==
    LET k == Cardinality({i \in DOMAIN sorted : StrLess(sorted[i].name, h.name)})
    IN  SubSeq(sorted, 1, k) \o <<h>> \o SubSeq(sorted, k + 1, Len(sorted))

\* no sort at all
InsertAtEnd(sorted, h) == Append(sorted, h)

\* list.sort is stable: an element goes after every element whose key is not
\* greater than its own.
InsertByName(sorted, h) ==
    LET k == Cardinality({i \in DOMAIN sorted : StrLeq(sorted[i].name, h.name)})
    IN  SubSeq(sorted, 1, k) \o <<h>> \o SubSeq(sorted, k + 1, Len(sorted))

RECURSIVE SortByName(_)
\* heroes.sort(key=lambda h: h["name"])
SortByName(hs) ==
    IF hs = <<>> THEN <<>>
    ELSE InsertByName(SortByName(SubSeq(hs, 1, Len(hs) - 1)), hs[Len(hs)])

\* RowStep without the skip of rows whose cell count differs from the header's
RowStep_NoLengthSkip(hs, keys, tr) ==
    IF tr = <<>> THEN [heroes |-> hs, cells |-> <<>>, exc |-> ""]
    ELSE LET cs == parse_row_cells(tr) IN
         IF HeaderCellMismatch(keys, cs)
         THEN [heroes |-> hs, cells |-> cs, exc |-> "ValueError: Header/cell mismatch"]
         ELSE [heroes |-> Append(hs, to_semantic_hero(keys, cs)), cells |-> cs, exc |-> ""]

\* One iteration of the for loop of scrape_heroes over a body row: the list
\* after the iteration and the cells parsed, or the exception raised.
RowStep(hs, keys, tr) ==
    IF tr = <<>> THEN [heroes |-> hs, cells |-> <<>>, exc |-> ""]
    ELSE LET cs == parse_row_cells(tr) IN
         IF Len(cs) # Len(keys) THEN [heroes |-> hs, cells |-> cs, exc |-> ""]
         ELSE IF HeaderCellMismatch(keys, cs)
              THEN [heroes |-> hs, cells |-> cs, exc |-> "ValueError: Header/cell mismatch"]
              ELSE [heroes |-> Append(hs, to_semantic_hero(keys, cs)), cells |-> cs, exc |-> ""]

RECURSIVE ProjectRows(_, _)
\* The list the for loop has built after all of rows (no iteration raises: a
\* row reaches to_semantic_hero only with as many cells as header keys).
ProjectRows(keys, rows) ==
    IF rows = <<>> THEN <<>>
    ELSE RowStep(ProjectRows(keys, SubSeq(rows, 1, Len(rows) - 1)), keys, rows[Len(rows)]).heroes

-----------------------------------------------------------------------------
(* Paths and the file system                                               *)

StartsWith(s, prefix) == Len(s) >= Len(prefix) /\ SubSeq(s, 1, Len(prefix)) = prefix

HTTP_PREFIX == <<"h", "t", "t", "p", ":", "/", "/">>

HTTPS_PREFIX == <<"h", "t", "t", "p", "s", ":", "/", "/">>

\* working directory of the process
CWD == <<"/", "w">>

\* str(Path(source).resolve())
ResolvePath(path) == IF StartsWith(path, <<"/">>) THEN path ELSE CWD \o <<"/">> \o path

\* os.path.dirname(p): the part before the last slash, without trailing
\* slashes unless it consists of slashes only.
Dirname(path) ==
    LET slashes == {i \in DOMAIN path : path[i] = "/"}
        last    == IF slashes = {} THEN 0 ELSE CHOOSE i \in slashes : \A j \in slashes : j <= i
        head    == SubSeq(path, 1, last)
    IN  IF RStrip(head, {"/"}) = <<>> THEN head ELSE RStrip(head, {"/"})

\* the directories os.makedirs(name) makes sure exist: name and its ancestors
DirChain(name) ==
    {RStrip(SubSeq(name, 1, i), {"/"}) :
        i \in {j \in DOMAIN name : j = Len(name) \/ name[j + 1] = "/"}} \ {<<>>}

\* a status check that lets client errors through
IsServerErrorStatus(status) == status >= 500 /\ status < 600

\* response.raise_for_status() raises on 4xx and 5xx
IsErrorStatus(status) == status >= 400 /\ status < 600

TABLE == <<"t", "a", "b", "l", "e">>

Lower(s) == [i \in DOMAIN s |-> LowerChar(s[i])]

-----------------------------------------------------------------------------
(* main(), one action per statement                                        *)

Fail(msg) ==
    /\ pc' = "error"
    /\ err' = msg

\* load_document(cfg.source).  world.page is the tree html.fromstring builds
\* from the response body or from the file's text (strict or, on a decode
\* error, replacing UTF-8: either way a page).
LoadDocument ==
    /\ pc = "load_document"
    /\ hist' = Append(hist, "load_document")
    /\ IF StartsWith(cfg.source, HTTP_PREFIX) \/ StartsWith(cfg.source, HTTPS_PREFIX)
       THEN IF IsErrorStatus(world.status)
            THEN /\ Fail("HTTPError")
                 /\ UNCHANGED <<doc, resolved_source>>
            ELSE /\ doc' = Some(world.page)
                 /\ resolved_source' = cfg.source
                 /\ pc' = "xpath_thead"
                 /\ UNCHANGED err
       ELSE IF ~world.exists
            THEN /\ Fail("FileNotFoundError: Local HTML file not found")
                 /\ UNCHANGED <<doc, resolved_source>>
            ELSE /\ doc' = Some(world.page)
                 /\ resolved_source' = ResolvePath(cfg.source)
                 /\ pc' = "xpath_thead"
                 /\ UNCHANGED err
    /\ UNCHANGED <<cfg, world, fs, thead, header_keys, idx, cells, heroes, data, stdout>>

\* thead = _first(doc.xpath(cfg.thead_xpath)); if thead is None: raise
LocateThead ==
    /\ pc = "xpath_thead"
    /\ hist' = Append(hist, "xpath_thead")
    /\ thead' = _first(Get(doc).matches)
    /\ IF thead' = None
       THEN Fail("ValueError: Could not find THEAD with XPath")
       ELSE pc' = "getparent" /\ UNCHANGED err
    /\ UNCHANGED <<cfg, world, fs, doc, resolved_source, header_keys, idx, cells, heroes, data, stdout>>

\* table = thead.getparent(); if table is None or table.tag.lower() != "table": raise
CheckParent ==
    /\ pc = "getparent"
    /\ hist' = Append(hist, "getparent")
    /\ LET table == Get(thead).parent IN
       IF table = None \/ Lower(Get(table).tag) # TABLE
       THEN Fail("ValueError: THEAD parent was not a <table>")
       ELSE pc' = "parse_header_keys" /\ UNCHANGED err
    /\ UNCHANGED <<cfg, world, fs, doc, resolved_source, thead, header_keys, idx, cells, heroes, data, stdout>>

\* header_keys = parse_header_keys(thead); rows = ...; heroes = []
ParseHeader ==
    /\ pc = "parse_header_keys"
    /\ hist' = Append(hist, "parse_header_keys")
    /\ header_keys' = parse_header_keys(Get(thead))
    /\ idx' = 0
    /\ heroes' = <<>>
    /\ pc' = "rows_loop"
    /\ UNCHANGED <<cfg, world, fs, doc, resolved_source, thead, cells, data, stdout, err>>

\* rows = table.xpath(".//tbody/tr")
Rows == Get(Get(thead).parent).rows

\* one iteration of: for tr in rows
LoopRow ==
    /\ pc = "rows_loop"
    /\ idx < Len(Rows)
    /\ hist' = Append(hist, "row")
    /\ LET r == RowStep(heroes, header_keys, Rows[idx + 1]) IN
       /\ cells' = IF Rows[idx + 1] = <<>> THEN cells ELSE r.cells
       /\ heroes' = r.heroes
       /\ IF r.exc # ""
          THEN Fail(r.exc) /\ UNCHANGED idx
          ELSE idx' = idx + 1 /\ UNCHANGED <<pc, err>>
    /\ UNCHANGED <<cfg, world, fs, doc, resolved_source, thead, header_keys, data, stdout>>

\* heroes.sort(key=...); return {"source", "count", "heroes"}
SortAndReturn ==
    /\ pc = "rows_loop"
    /\ idx = Len(Rows)
    /\ hist' = Append(hist, "sort_return")
    /\ heroes' = SortByName(heroes)
    /\ data' = Some([source |-> resolved_source, count |-> Len(heroes'), heroes |-> heroes'])
    /\ pc' = "makedirs"
    /\ UNCHANGED <<cfg, world, fs, doc, resolved_source, thead, header_keys, idx, cells, stdout, err>>

\* os.makedirs(os.path.dirname(args.out), exist_ok=True); mkdir("") fails
MakeDirs ==
    /\ pc = "makedirs"
    /\ hist' = Append(hist, "makedirs")
    /\ LET name == Dirname(cfg.out) IN
       IF name = <<>>
       THEN Fail("FileNotFoundError: makedirs") /\ UNCHANGED fs
       ELSE /\ fs' = [fs EXCEPT !.dirs = @ \cup DirChain(name)]
            /\ pc' = "open_dump"
            /\ UNCHANGED err
    /\ UNCHANGED <<cfg, world, doc, resolved_source, thead, header_keys, idx, cells, heroes, data, stdout>>

\* with open(args.out, "w") as f: json.dump(data, f, ...)
WriteFile ==
    /\ pc = "open_dump"
    /\ hist' = Append(hist, "open_dump")
    /\ fs' = [fs EXCEPT !.file = Some([path |-> cfg.out, json |-> Get(data)])]
    /\ pc' = "print_count"
    /\ UNCHANGED <<cfg, world, doc, resolved_source, thead, header_keys, idx, cells, heroes, data, stdout, err>>

\* print(f"Wrote {data['count']} heroes to {args.out}")
PrintCount ==
    /\ pc = "print_count"
    /\ hist' = Append(hist, "print_count")
    /\ stdout' = Append(stdout, [line |-> "Wrote", count |-> Get(data).count, text |-> cfg.out])
    /\ pc' = "print_source"
    /\ UNCHANGED <<cfg, world, fs, doc, resolved_source, thead, header_keys, idx, cells, heroes, data, err>>

\* print(f"Source: {data['source']}")
PrintSource ==
    /\ pc = "print_source"
    /\ hist' = Append(hist, "print_source")
    /\ stdout' = Append(stdout, [line |-> "Source", count |-> 0, text |-> Get(data).source])
    /\ pc' = "done"
    /\ UNCHANGED <<cfg, world, fs, doc, resolved_source, thead, header_keys, idx, cells, heroes, data, err>>

Next ==
    \/ LoadDocument
    \/ LocateThead
    \/ CheckParent
    \/ ParseHeader
    \/ LoopRow
    \/ SortAndReturn
    \/ MakeDirs
    \/ WriteFile
    \/ PrintCount
    \/ PrintSource

-----------------------------------------------------------------------------
(* Inputs: command lines, sources, pages                                   *)

MaxCols == 2

MaxRows == 2

MaxHeaderCols == 2

MaxStrLen == 4

MaxNameLen == 4

\* all sequences over S of length at most n
SeqsUpTo(S, n) == UNION {[1..k -> S] : k \in 0..n}

URL_SOURCE == <<"h", "t", "t", "p", "s", ":", "/", "/", "w">>

PLAIN_URL_SOURCE == <<"h", "t", "t", "p", ":", "/", "/", "w">>

FILE_SOURCE == <<"p", ".", "h", "t", "m", "l">>

ABS_FILE_SOURCE == <<"/", "a", "/", "p", ".", "h", "t", "m", "l">>

\* default of --out
DEFAULT_OUT == <<"d", "o", "c", "s", "/", "d", "a", "t", "a", "/", "h", "e", "r", "o", "e", "s", ".", "j", "s", "o", "n">>

BARE_OUT == <<"h", "e", "r", "o", "e", "s", ".", "j", "s", "o", "n">>

NESTED_OUT == <<"o", "/", "h", ".", "j", "s", "o", "n">>

ABS_OUT == <<"/", "h", ".", "j", "s", "o", "n">>

Text(s) == [kind |-> "text", s |-> s]

Abbr(s) == [kind |-> "abbr", s |-> s]

Link(s) == [kind |-> "a", s |-> s]

Td(sv, segs) == [sort_value |-> sv, segs |-> segs]

TheadNode(parent, ths) == [parent |-> parent, ths |-> ths]

TableParent(tag, rows) == Some([tag |-> tag, rows |-> rows])

TablePage(ths, rows) == [matches |-> <<TheadNode(TableParent(TABLE, rows), ths)>>]

HERO == <<"H", "E", "R", "O">>

STR == <<"S", "T", "R">>

ThHero == <<Text(HERO)>>

ThStr == <<Text(<<"S", "t", "r", "e", "n", "g", "t", "h", " ">>), Abbr(STR)>>

TdAxe == Td(None, <<Text(<<" ">>), Link(<<"A", "x", "e">>)>>)

TdBane == Td(None, <<Text(<<"b", "a", "n", "e">>)>>)

Td23 == Td(Some(<<"2", "5">>), <<Text(<<"2", "3">>)>>)

\* pages on which table location fails, and minimal pages on which it succeeds
NoMatchPage == [matches |-> <<>>]

DivPage == [matches |-> <<TheadNode(TableParent(<<"d", "i", "v">>, <<<<TdAxe>>>>), <<ThHero>>)>>]

OrphanPage == [matches |-> <<TheadNode(None, <<ThHero>>)>>]

UPPER_TABLE == <<"T", "A", "B", "L", "E">>

UpperTagPage == [matches |-> <<TheadNode(TableParent(UPPER_TABLE, <<<<TdAxe, Td23>>>>), <<ThHero, ThStr>>)>>]

TwoMatchPage ==
    [matches |-> <<TheadNode(TableParent(TABLE, <<<<TdBane>>, <<>>, <<TdAxe>>, <<TdAxe, Td23>>>>), <<ThHero>>),
                   TheadNode(TableParent(<<"d", "i", "v">>, <<>>), <<>>)>>]

BadFirstMatchPage ==
    [matches |-> <<TheadNode(TableParent(<<"d", "i", "v">>, <<>>), <<>>),
                   TheadNode(TableParent(TABLE, <<<<TdAxe>>>>), <<ThHero>>)>>]

EmptyTablePage == TablePage(<<>>, <<>>)

OldEnvelope == [source |-> <<"o", "l", "d">>, count |-> 0, heroes |-> <<>>]

EmptyFs == [dirs |-> {}, file |-> None]

\* a previous run with the same --out left its directories and its file
UsedFs(out) ==
    [dirs |-> DirChain(Dirname(out)), file |-> Some([path |-> out, json |-> OldEnvelope])]

\* The state when main() starts.
Setup(source, out, status, exists, page, fs0) ==
    /\ pc = "load_document"
    /\ cfg = [source |-> source, thead_xpath |-> "thead", out |-> out]
    /\ world = [status |-> status, exists |-> exists, page |-> page, fs0 |-> fs0]
    /\ fs = fs0
    /\ doc = None
    /\ resolved_source = <<>>
    /\ thead = None
    /\ header_keys = <<>>
    /\ idx = 0
    /\ cells = <<>>
    /\ heroes = <<>>
    /\ data = None
    /\ stdout = <<>>
    /\ err = ""
    /\ hist = <<>>

StatusCodes == {200, 304, 404, 500}

Sources == {URL_SOURCE, PLAIN_URL_SOURCE, FILE_SOURCE, ABS_FILE_SOURCE}

Outs == {DEFAULT_OUT, BARE_OUT, NESTED_OUT, ABS_OUT}

MainPages ==
    {NoMatchPage, DivPage, OrphanPage, UpperTagPage, TwoMatchPage, BadFirstMatchPage, EmptyTablePage}

\* Every command line, source outcome and earlier file system, on a few pages.
Init ==
    \E source \in Sources, out \in Outs, status \in StatusCodes, exists \in BOOLEAN,
       page \in MainPages, used \in BOOLEAN :
        Setup(source, out, status, exists, page, IF used THEN UsedFs(out) ELSE EmptyFs)

Spec == Init /\ [][Next]_vars

\* A run whose source loads, with nothing on disk before it.
SetupPage(page) == Setup(URL_SOURCE, DEFAULT_OUT, 200, TRUE, page, EmptyFs)

-----------------------------------------------------------------------------
(* Tables: every header over two TH shapes; each body row is a data row  *)
(* with one cell per header key, or an odd row (no td, one cell too many,  *)
(* one cell too few).                                                      *)

TdZed == Td(Some(<<"Z", "e", "d", "\t">>), <<Link(<<" ">>), Text(<<" ", "Z", "e", "d">>)>>)

TableThs == {ThHero, ThStr}

TableTds == {TdBane, TdZed}

\* body rows with one cell for each of n header keys
DataRows(n) == [1..n -> TableTds]

\* separator and other rows whose cell count is not n
OddRows(n) ==
    {<<>>, [i \in 1..(n + 1) |-> TdBane]}
    \cup (IF n >= 2 THEN {[i \in 1..(n - 1) |-> TdZed]} ELSE {})

InitTable ==
    \E ths \in SeqsUpTo(TableThs, MaxCols) :
        \E rows \in SeqsUpTo(DataRows(Len(ths)) \cup OddRows(Len(ths)), MaxRows) :
            SetupPage(TablePage(ths, rows))

SpecTable == InitTable /\ [][Next]_vars

-----------------------------------------------------------------------------
(* Headers: every header row over a set of TH shapes, with one body row    *)

HeaderThs ==
    { ThHero,
      ThStr,
      <<Text(<<"A">>)>>,
      <<Text(<<"D", "M", "G">>)>>,
      <<Abbr(DMG)>>,
      <<Abbr(DMG), Text(<<" ", "(", "M", "I", "N", ")", " ">>)>>,
      <<Abbr(DMG), Text(<<"\n", "(", "M", "A", "X", ")">>)>>,
      <<Abbr(<<" ", "D", "M", "G", " ">>), Text(<<NBSP>>), Text(MAX_MARK)>>,
      <<Text(<<"D", "M", "G", " ", " ", "(", "M", "I", "N", ")">>)>>,
      <<Abbr(DMG), Text(MIN_MARK), Text(<<"/">>), Text(MAX_MARK)>>,
      <<Text(<<"D", "a", "m", "a", "g", "e", " ">>), Abbr(DMG), Text(MAX_MARK), Text(MIN_MARK)>>,
      <<Abbr(DMG), Text(<<"(", "m", "i", "n", ")">>)>>,
      <<Abbr(<<>>), Text(<<"H", "P", "/", "S">>)>>,
      <<Abbr(<<"H", "P", "/", "S">>), Abbr(<<"M", "P", "/", "S">>)>> }

\* the digit character of i, for 0 <= i <= 9
DigitChar(i) == Ascii[17 + i]

\* a body row of n cells whose texts are 1, 2, ..., n
NumberedRow(n) == [i \in 1..n |-> Td(None, <<Text(<<DigitChar(i)>>)>>)]

InitHeader ==
    \E ths \in SeqsUpTo(HeaderThs, MaxHeaderCols) :
        SetupPage(TablePage(ths, <<NumberedRow(Len(ths))>>))

SpecHeader == InitHeader /\ [][Next]_vars

-----------------------------------------------------------------------------
(* Cells: every short string as the text or the data-sort-value of a cell  *)

CellAlphabet == {"-", "1", "5", ".", " ", "x"}

CellStrings == SeqsUpTo(CellAlphabet, MaxStrLen)

CellTexts == {<<>>, <<"x">>, <<"7">>}

\* cells whose text or attribute has a non-breaking space or a line break
NbspTds ==
    { Td(None, <<Text(<<NBSP, "1", "5", NBSP>>)>>),
      Td(None, <<Text(<<"1", NBSP, "5">>)>>),
      Td(Some(<<"\n", "-", "5", ".", "1", NBSP>>), <<Text(<<"x">>)>>),
      Td(Some(<<NBSP>>), <<Text(<<"7">>)>>) }

\* a page whose only body row has the cell in the STR column
CellPage(td) == TablePage(<<ThHero, ThStr>>, <<<<TdAxe, td>>>>)

InitCell ==
    \/ \E s \in CellStrings : SetupPage(CellPage(Td(None, <<Text(s)>>)))
    \/ \E s \in CellStrings, t \in CellTexts : SetupPage(CellPage(Td(Some(s), <<Text(t)>>)))
    \/ \E td \in NbspTds : SetupPage(CellPage(td))

SpecCell == InitCell /\ [][Next]_vars

-----------------------------------------------------------------------------
(* Names: every short string as the text or the link text of the first cell *)

NameAlphabet == {"A", "z", "7", "-", " ", UpperNonAscii}

NameStrings == SeqsUpTo(NameAlphabet, MaxNameLen)

\* the first cell holds the string as plain text, as a link, or as a link after text
NameTds(s) ==
    {Td(None, <<Text(s)>>), Td(None, <<Link(s)>>), Td(None, <<Text(<<"x", " ">>), Link(s)>>)}

InitName ==
    \E s \in NameStrings : \E td \in NameTds(s) : SetupPage(TablePage(<<ThHero>>, <<<<td>>>>))

SpecName == InitName /\ [][Next]_vars

-----------------------------------------------------------------------------
(* Properties                                                              *)

\* scrape_heroes has just returned its envelope to main
Returned == pc = "makedirs"

Envelope == Get(data)

Executed(stmt) == \E i \in DOMAIN hist : hist[i] = stmt

\* the records of hs whose name is n, in order
WithName(hs, n) == SelectSeq(hs, LAMBDA h : h.name = n)

\* the body rows that have a td and as many td cells as there are header keys
IncludedRows == {i \in DOMAIN Rows : Len(Rows[i]) >= 1 /\ Len(Rows[i]) = Len(header_keys)}

RecordOfRow(i) == to_semantic_hero(header_keys, parse_row_cells(Rows[i]))

\* C1: the envelope holds exactly one record for each body row that has at
\* least one td and as many td cells as header keys, none for any other row;
\* a row of another length raises no error; count is the length of heroes.
C1_OneRecordPerMatchingRow ==
    /\ err = "" /\ pc # "error"
    /\ Returned =>
        LET hs   == Envelope.heroes
            recs == [i \in IncludedRows |-> RecordOfRow(i)]
        IN  /\ Envelope.count = Len(hs)
            /\ Len(hs) = Cardinality(IncludedRows)
            /\ \A r \in {hs[k] : k \in DOMAIN hs} \cup {recs[i] : i \in IncludedRows} :
                   Cardinality({k \in DOMAIN hs : hs[k] = r})
                       = Cardinality({i \in IncludedRows : recs[i] = r})

C1_Witness ==
    /\ Returned
    /\ Envelope.count = 1
    /\ \E i \in DOMAIN Rows : Len(Rows[i]) >= 1 /\ Len(Rows[i]) # Len(header_keys)
    /\ \E i \in DOMAIN Rows : i \in IncludedRows

SlugAlphabet ==
    {Ascii[i] : i \in 66..91} \cup {Ascii[i] : i \in 17..26} \cup {"-"}

WellFormedSlug(s) ==
    /\ \A i \in DOMAIN s : s[i] \in SlugAlphabet
    /\ s # <<>> => (s[1] # "-" /\ s[Len(s)] # "-")
    /\ \A i \in 1..(Len(s) - 1) : ~(s[i] = "-" /\ s[i + 1] = "-")

\* the strings found in the first cell of the body rows, as written in the page
FirstCellStrings ==
    UNION {{Rows[i][1].segs[j].s : j \in DOMAIN Rows[i][1].segs} :
               i \in {r \in DOMAIN Rows : Rows[r] # <<>>}}

\* C2: every hero's id is _slugify(name); the slug of any string consists of
\* a-z, 0-9 and hyphens only, neither starts nor ends with a hyphen and has
\* no two hyphens in a row.
C2_IdIsWellFormedSlug ==
    Executed("row") =>
        /\ \A k \in DOMAIN heroes :
               /\ heroes[k].id = _slugify(heroes[k].name)
               /\ WellFormedSlug(heroes[k].id)
        /\ \A s \in FirstCellStrings : WellFormedSlug(_slugify(s))

C2_Witness ==
    /\ pc = "done"
    /\ \E k \in DOMAIN heroes :
           /\ heroes[k].name = <<"A", " ", "-", "z">>
           /\ heroes[k].id = <<"a", "-", "z">>

\* C3: heroes is sorted ascending by name under Python's string ordering, and
\* records with equal names keep the order they have in the table.
C3_SortedStable ==
    Returned =>
        LET hs == Envelope.heroes IN
        /\ \A k \in 1..(Len(hs) - 1) : StrLeq(hs[k].name, hs[k + 1].name)
        /\ LET table == ProjectRows(header_keys, Rows) IN
           \A n \in {hs[k].name : k \in DOMAIN hs} : WithName(hs, n) = WithName(table, n)

C3_Witness ==
    /\ Returned
    /\ Len(Envelope.heroes) = 2
    /\ Envelope.heroes[1].name = Envelope.heroes[2].name
    /\ Envelope.heroes[1] # Envelope.heroes[2]

PermutedRows(p) == [i \in DOMAIN Rows |-> Rows[p[i]]]

\* what scrape_heroes returns as heroes for the same header and the given rows
HeroesOf(rows) == SortByName(ProjectRows(header_keys, rows))

NamesDetermineRecords ==
    \A i, j \in DOMAIN Envelope.heroes :
        Envelope.heroes[i].name = Envelope.heroes[j].name => Envelope.heroes[i] = Envelope.heroes[j]

\* C4 as stated: for every table and every permutation of its body rows,
\* scrape_heroes returns the same heroes sequence.
C4_AnyPermutationSameHeroes ==
    Returned => \A p \in Permutations(DOMAIN Rows) : HeroesOf(PermutedRows(p)) = Envelope.heroes

\* C4 amended: for every table in which rows with the same hero name yield
\* the same record, every permutation of the body rows gives the same heroes
\* sequence.
C4_PermutationSameHeroesIfNamesDecide ==
    (Returned /\ NamesDetermineRecords) =>
        \A p \in Permutations(DOMAIN Rows) : HeroesOf(PermutedRows(p)) = Envelope.heroes

C4_Witness ==
    /\ Returned
    /\ NamesDetermineRecords
    /\ Len(Envelope.heroes) = 2
    /\ Envelope.heroes[1].name # Envelope.heroes[2].name
    /\ ProjectRows(header_keys, Rows) # Envelope.heroes

\* the cleaned text of the first abbr of a header cell, else of the whole cell
PreferredText(th) ==
    IF \E i \in DOMAIN th : th[i].kind = "abbr"
    THEN _clean(th[CHOOSE i \in DOMAIN th :
                       th[i].kind = "abbr" /\ \A j \in 1..(i - 1) : th[j].kind # "abbr"].s)
    ELSE _clean(IterText(th))

FullText(th) == _clean(IterText(th))

Ths == Get(thead).ths

\* C5 as stated: a header cell whose preferred text is "DMG" maps to
\* "DMG (MIN)" whenever its full text contains "(MIN)" and to "DMG (MAX)"
\* whenever it contains "(MAX)"; every other cell maps to its preferred text;
\* keys are in column order.
C5_DmgKeyWheneverMarked ==
    Executed("parse_header_keys") =>
        /\ Len(header_keys) = Len(Ths)
        /\ \A i \in DOMAIN Ths :
               LET isDmg  == PreferredText(Ths[i]) = DMG
                   hasMin == Contains(FullText(Ths[i]), MIN_MARK)
                   hasMax == Contains(FullText(Ths[i]), MAX_MARK)
               IN  /\ (isDmg /\ hasMin) => header_keys[i] = DMG_MIN
                   /\ (isDmg /\ hasMax) => header_keys[i] = DMG_MAX
                   /\ ~(isDmg /\ (hasMin \/ hasMax)) => header_keys[i] = PreferredText(Ths[i])

\* C5 amended: "DMG (MAX)" only when the full text contains "(MAX)" and not
\* "(MIN)"; with both, the key is "DMG (MIN)".
C5_DmgKeyMinFirst ==
    Executed("parse_header_keys") =>
        /\ Len(header_keys) = Len(Ths)
        /\ \A i \in DOMAIN Ths :
               LET isDmg  == PreferredText(Ths[i]) = DMG
                   hasMin == Contains(FullText(Ths[i]), MIN_MARK)
                   hasMax == Contains(FullText(Ths[i]), MAX_MARK)
               IN  /\ (isDmg /\ hasMin) => header_keys[i] = DMG_MIN
                   /\ (isDmg /\ hasMax /\ ~hasMin) => header_keys[i] = DMG_MAX
                   /\ ~(isDmg /\ (hasMin \/ hasMax)) => header_keys[i] = PreferredText(Ths[i])

C5_Witness ==
    /\ pc = "done"
    /\ Len(header_keys) = 2
    /\ header_keys[1] = DMG_MAX
    /\ PreferredText(Ths[2]) = DMG
    /\ Contains(FullText(Ths[2]), MIN_MARK) /\ Contains(FullText(Ths[2]), MAX_MARK)
    /\ header_keys[2] = DMG_MIN

DigitList == {"0", "1", "2", "3", "4", "5", "6", "7", "8", "9"}

AllDigits(s) == s # <<>> /\ \A i \in DOMAIN s : s[i] \in DigitList

Unsigned(s) == IF s # <<>> /\ s[1] = "-" THEN SubSeq(s, 2, Len(s)) ELSE s

Sign(s) == IF s # <<>> /\ s[1] = "-" THEN -1 ELSE 1

\* optional minus sign, digits
IsIntPattern(s) == AllDigits(Unsigned(s))

\* the positions of a dot that splits s into digits, dot, digits
DecimalDots(s) ==
    {k \in DOMAIN Unsigned(s) :
        /\ Unsigned(s)[k] = "."
        /\ AllDigits(SubSeq(Unsigned(s), 1, k - 1))
        /\ AllDigits(SubSeq(Unsigned(s), k + 1, Len(Unsigned(s))))}

\* optional minus sign, digits, dot, digits
IsDecimalPattern(s) == DecimalDots(s) # {}

\* value v is what the claim says the coercion of source string src yields
CoercionOf(v, src) ==
    LET c == _clean(src) IN
    IF c = <<>> THEN v.t = "null"
    ELSE IF IsIntPattern(c)
         THEN v.t = "int" /\ v.n = Sign(c) * DigitsValue(Unsigned(c))
    ELSE IF IsDecimalPattern(c)
         THEN LET k == CHOOSE d \in DecimalDots(c) : TRUE
                  u == Unsigned(c)
              IN  /\ v.t = "float"
                  \* v.n / v.d = sign * (integer part + fraction / 10^digits)
                  /\ v.n * Pow10(Len(u) - k)
                       = v.d * Sign(c) * (DigitsValue(SubSeq(u, 1, k - 1)) * Pow10(Len(u) - k)
                                          + DigitsValue(SubSeq(u, k + 1, Len(u))))
    ELSE v.t = "str" /\ v.s = c

\* C6: a cell's value is the coercion of its data-sort-value when the
\* attribute is present, else of its cleaned text: an integer for the
\* integer pattern, a decimal for the decimal pattern, null for the empty
\* string and the cleaned string otherwise.
C6_ValueIsCoercedSource ==
    (Executed("row") /\ idx >= 1 /\ Rows[idx] # <<>>) =>
        /\ Len(cells) = Len(Rows[idx])
        /\ \A j \in DOMAIN cells :
               LET td == Rows[idx][j] IN
               IF td.sort_value # None
               THEN CoercionOf(cells[j].value, td.sort_value[1])
               ELSE CoercionOf(cells[j].value, _clean(IterText(td.segs)))

C6_Witness ==
    /\ pc = "done"
    /\ cells[2].sort_value = Some(<<"-", "1", ".", "5">>)
    /\ cells[2].text = <<"x">>
    /\ cells[2].value.t = "float"
    /\ cells[2].value.n = -3 /\ cells[2].value.d = 2

BaseFieldNames == {BaseFields[i][1] : i \in DOMAIN BaseFields}

\* base has exactly n fields, always the same ones, and each holds the value
\* raw has for the field's header key, or null when raw has no such key
BaseHasFields(h, n) ==
    /\ Cardinality(DOMAIN h.base) = n
    /\ DOMAIN h.base = BaseFieldNames
    /\ \A i \in DOMAIN BaseFields :
           h.base[BaseFields[i][1]]
               = IF BaseFields[i][2] \in DOMAIN h.raw THEN h.raw[BaseFields[i][2]] ELSE NullVal

C8_RawKeepsEveryColumn ==
    (pc = "rows_loop" /\ idx >= 1 /\ idx \in IncludedRows) =>
        \A i \in DOMAIN header_keys :
            /\ header_keys[i] \in DOMAIN heroes[Len(heroes)].raw
            /\ heroes[Len(heroes)].raw[header_keys[i]] = cells[i].value

IsUrlSource == cfg.source \in {URL_SOURCE, PLAIN_URL_SOURCE}

\* the source cannot be acquired: a 4xx or 5xx answer, or no file at the path
AcquisitionFails == IF IsUrlSource THEN world.status \in {404, 500} ELSE ~world.exists

LocatorMatchesNothing == ~AcquisitionFails /\ world.page.matches = <<>>

ParentNotTable ==
    /\ ~AcquisitionFails
    /\ world.page.matches # <<>>
    /\ \/ world.page.matches[1].parent = None
       \/ world.page.matches[1].parent[1].tag \notin {TABLE, UPPER_TABLE}

\* the statements a run executes up to its failing one
FailingPath ==
    IF AcquisitionFails THEN <<"load_document">>
    ELSE IF LocatorMatchesNothing THEN <<"load_document", "xpath_thead">>
    ELSE <<"load_document", "xpath_thead", "getparent">>

C10_SuccessWritesThenPrints ==
    /\ (data # None /\ pc \in {"done", "error"}) =>
        /\ pc = "done"
        /\ DirChain(Dirname(cfg.out)) \subseteq fs.dirs
        /\ fs.file = Some([path |-> cfg.out, json |-> Envelope])
        /\ stdout = <<[line |-> "Wrote", count |-> Envelope.count, text |-> cfg.out],
                      [line |-> "Source", count |-> 0, text |-> Envelope.source]>>
        /\ SubSeq(hist, Len(hist) - 3, Len(hist))
               = <<"makedirs", "open_dump", "print_count", "print_source">>
    /\ stdout # <<>> => (data # None /\ fs.file = Some([path |-> cfg.out, json |-> Envelope]))
    /\ Executed("open_dump") => (Executed("makedirs") /\ DirChain(Dirname(cfg.out)) \subseteq fs.dirs)

====
